---------------------------- MODULE Spec2Model ----------------------------
(***************************************************************************)
(* Model of the Netflix CSV refiner (src/refiner/refine.py): the column    *)
(* shape classifier, the two field normalizers, the duration and monetary  *)
(* coercions and the transform() orchestrator.                             *)
(*                                                                         *)
(* Text is modelled as a sequence of one-character strings, so that        *)
(* lower(), strip(), split(':'), str.replace() and the numeric parsers are *)
(* computed character by character.  A missing cell (pandas NaN) is the    *)
(* value NaN.                                                              *)
(***************************************************************************)
EXTENDS Integers, Sequences, FiniteSets, TLC

VARIABLES
    listing,      \* os.listdir(settings.INPUT_DIR): the entries, in order
    env_wallet,   \* os.getenv('WALLET_ADDRESS') of the current run
    pc,           \* position of transform()
    idx,          \* index in listing of the entry the loop handles next
    run,          \* number of transform() calls started so far
    account_id,   \* local account_id of transform()
    db,           \* refined.sqlite: the two relations
    dist,         \* distribution steps performed by the current run
    returned,     \* the Output transform() returned, or None
    failedAt,     \* the step whose exception ended the current run
    last,         \* the latest normalizer call: its input and its result
    runStart,     \* row counts of the relations when the current run began
    firstRun,     \* row counts of the relations when the first run ended
    cls,          \* classifier harness: column names and their label
    dur,          \* duration harness: a cell value and _parse_duration of it
    mon           \* monetary harness: a cell value and its coerced amount

pipeVars == <<listing, env_wallet, pc, idx, run, account_id, db, dist,
              returned, failedAt, last, runStart, firstRun>>
harnessVars == <<cls, dur, mon>>
vars == <<listing, env_wallet, pc, idx, run, account_id, db, dist,
          returned, failedAt, last, runStart, firstRun, cls, dur, mon>>

None == "None"
\* a missing cell (pandas NaN): no text holds a three-letter element
NaN == <<"NaN">>

(***************************************************************************)
(* Text primitives                                                         *)
(***************************************************************************)
UpperLetters == <<"A","B","C","D","E","F","G","H","I","J","K","L","M","N","O","P","Q","R","S","T","U","V","W","X","Y","Z">>
LowerLetters == <<"a","b","c","d","e","f","g","h","i","j","k","l","m","n","o","p","q","r","s","t","u","v","w","x","y","z">>
Whitespace == {" ", "\t"}
Digits == <<"0","1","2","3","4","5","6","7","8","9">>

IndexOf(c, s) ==
    IF \E i \in 1..Len(s) : s[i] = c
    THEN CHOOSE i \in 1..Len(s) : s[i] = c
    ELSE 0

\* str.lower(), one character
LowerChar(c) ==
    IF IndexOf(c, UpperLetters) > 0 THEN LowerLetters[IndexOf(c, UpperLetters)] ELSE c

\* str.upper(), one character
UpperChar(c) ==
    IF IndexOf(c, LowerLetters) > 0 THEN UpperLetters[IndexOf(c, LowerLetters)] ELSE c

\* str.lower()
Lower(s) == [i \in 1..Len(s) |-> LowerChar(s[i])]

\* str.upper()
Upper(s) == [i \in 1..Len(s) |-> UpperChar(s[i])]

RECURSIVE LStrip(_)
LStrip(s) ==
    IF s # << >> /\ Head(s) \in Whitespace THEN LStrip(Tail(s)) ELSE s

RECURSIVE RStrip(_)
RStrip(s) ==
    IF s # << >> /\ s[Len(s)] \in Whitespace
    THEN RStrip(SubSeq(s, 1, Len(s) - 1))
    ELSE s

\* str.strip()
Strip(s) == LStrip(RStrip(s))

Range(s) == {s[i] : i \in 1..Len(s)}


(***************************************************************************)
(* Shape classifier: Refiner._detect_file_type                             *)
(***************************************************************************)
viewing_indicators ==
    { <<"s","t","a","r","t"," ","t","i","m","e">>, <<"d","u","r","a","t","i","o","n">>, <<"t","i","t","l","e">>, <<"p","r","o","f","i","l","e"," ","n","a","m","e">>,
      <<"d","e","v","i","c","e"," ","t","y","p","e">>, <<"b","o","o","k","m","a","r","k">> }

billing_indicators ==
    { <<"t","r","a","n","s","a","c","t","i","o","n"," ","d","a","t","e">>, <<"g","r","o","s","s"," ","s","a","l","e"," ","a","m","t">>, <<"c","u","r","r","e","n","c","y">>,
      <<"p","a","y","m","e","n","t"," ","t","y","p","e">>, <<"p","m","t"," ","s","t","a","t","u","s">> }

\* col.lower() only: the trim is forgotten
NormalizeColumnNoStrip(col) == Lower(col)

\* col.lower().strip()
NormalizeColumn(col) == Strip(Lower(col))

\* the if / elif / else over the two scores
Decide(viewing_score, billing_score) ==
    IF viewing_score > billing_score THEN "viewing"
    ELSE IF billing_score > viewing_score THEN "billing"
    ELSE "unknown"

\* df_columns: the set of the frame's column names, as read
_detect_file_type(df_columns) ==
    LET columns == {NormalizeColumn(col) : col \in df_columns}
        viewing_score == Cardinality(columns \cap viewing_indicators)
        billing_score == Cardinality(columns \cap billing_indicators)
    IN  Decide(viewing_score, billing_score)


(***************************************************************************)
(* Duration coercion: Refiner._parse_duration                              *)
(***************************************************************************)
\* str.split(sep) for a one-character separator
RECURSIVE Split(_, _)
Split(s, sep) ==
    LET i == IndexOf(sep, s)
    IN  IF i = 0 THEN <<s>>
        ELSE <<SubSeq(s, 1, i - 1)>> \o Split(SubSeq(s, i + 1, Len(s)), sep)

RECURSIVE DigitsValue(_)
DigitsValue(ds) ==
    IF ds = << >> THEN 0
    ELSE 10 * DigitsValue(SubSeq(ds, 1, Len(ds) - 1))
         + (IndexOf(ds[Len(ds)], Digits) - 1)

IsDigit(c) == IndexOf(c, Digits) > 0

\* Python int(text): surrounding whitespace, an optional sign, decimal digits
\* with single underscores between them; anything else raises ValueError
PyInt(text) ==
    LET s == Strip(text)
        signed == s # << >> /\ s[1] \in {"+", "-"}
        body == IF signed THEN Tail(s) ELSE s
        valid == /\ body # << >>
                 /\ \A i \in 1..Len(body) : IsDigit(body[i]) \/ body[i] = "_"
                 /\ body[1] # "_"
                 /\ body[Len(body)] # "_"
                 /\ \A i \in 1..(Len(body) - 1) : ~(body[i] = "_" /\ body[i + 1] = "_")
        magnitude == DigitsValue(SelectSeq(body, IsDigit))
    IN  IF ~valid THEN [raised |-> TRUE, val |-> 0]
        ELSE [raised |-> FALSE,
              val |-> IF s[1] = "-" THEN 0 - magnitude ELSE magnitude]

\* the three-part branch taken for two parts too: the first two of them are used
DurationFromPartsAsHM(parts) ==
    IF Len(parts) \in {2, 3}
    THEN IF \E i \in 1..Len(parts) : PyInt(parts[i]).raised THEN 0
         ELSE PyInt(parts[1]).val * 3600 + PyInt(parts[2]).val * 60
              + (IF Len(parts) = 3 THEN PyInt(parts[3]).val ELSE 0)
    ELSE 0

\* the branches on len(parts); a ValueError of int() is caught and gives 0
DurationFromParts(parts) ==
    IF Len(parts) = 3
    THEN IF \E i \in 1..3 : PyInt(parts[i]).raised THEN 0
         ELSE PyInt(parts[1]).val * 3600 + PyInt(parts[2]).val * 60
              + PyInt(parts[3]).val
    ELSE IF Len(parts) = 2
    THEN IF \E i \in 1..2 : PyInt(parts[i]).raised THEN 0
         ELSE PyInt(parts[1]).val * 60 + PyInt(parts[2]).val
    ELSE 0

_parse_duration(duration_str) ==
    IF duration_str = NaN \/ duration_str = << >> THEN 0
    ELSE DurationFromParts(Split(duration_str, ":"))

(***************************************************************************)
(* Monetary coercion: the numeric_columns loop of _process_billing_history *)
(***************************************************************************)
\* Series.astype(str), one cell: a missing cell becomes the text "nan"
AsTypeStr(cell) == IF cell = NaN THEN <<"n","a","n">> ELSE cell

\* Series.str.replace(pat, ''), one cell, pat one literal character
RECURSIVE StrReplace(_, _)
StrReplace(s, pat) ==
    LET i == IndexOf(pat, s)
    IN  IF i = 0 THEN s
        ELSE SubSeq(s, 1, i - 1) \o StrReplace(SubSeq(s, i + 1, Len(s)), pat)

RECURSIVE Pow10(_)
Pow10(n) == IF n = 0 THEN 1 ELSE 10 * Pow10(n - 1)

\* a decimal num / 10^scale in lowest terms of ten: equal amounts are equal records
RECURSIVE Decimal(_, _)
Decimal(num, scale) ==
    IF scale > 0 /\ num % 10 = 0 THEN Decimal(num \div 10, scale - 1)
    ELSE [nan |-> FALSE, num |-> num, scale |-> scale]

NaNFloat == [nan |-> TRUE, num |-> 0, scale |-> 0]

\* pd.to_numeric(errors='coerce'), one cell: an optional sign, digits with at
\* most one decimal point and at least one digit; anything else is NaN
ToNumeric(text) ==
    LET signed == text # << >> /\ text[1] \in {"+", "-"}
        body == IF signed THEN Tail(text) ELSE text
        dot == IndexOf(".", body)
        intpart == IF dot = 0 THEN body ELSE SubSeq(body, 1, dot - 1)
        fracpart == IF dot = 0 THEN << >> ELSE SubSeq(body, dot + 1, Len(body))
        valid == /\ \A i \in 1..Len(intpart) : IsDigit(intpart[i])
                 /\ \A i \in 1..Len(fracpart) : IsDigit(fracpart[i])
                 /\ Len(intpart) + Len(fracpart) > 0
        magnitude == DigitsValue(intpart \o fracpart)
    IN  IF ~valid THEN NaNFloat
        ELSE Decimal(IF text[1] = "-" THEN 0 - magnitude ELSE magnitude,
                     Len(fracpart))

\* Series.fillna(0.0), one cell
FillNa(x) == IF x.nan THEN Decimal(0, 0) ELSE x

\* the unparseable cells are left NaN: fillna is forgotten
CoerceAmountNoFillNa(cell) ==
    ToNumeric(StrReplace(StrReplace(AsTypeStr(cell), "$"), ","))

\* lines 103-104, one cell
CoerceAmount(cell) ==
    FillNa(ToNumeric(StrReplace(StrReplace(AsTypeStr(cell), "$"), ",")))


\* lines 103-104 on a column: every cell is coerced in place
CoerceSeries(series) == [i \in 1..Len(series) |-> CoerceAmount(series[i])]

(***************************************************************************)
(* Data frames: a set of column names and rows mapping each name to a cell *)
(***************************************************************************)
account_id_col == <<"a","c","c","o","u","n","t","_","i","d">>
duration_col == <<"d","u","r","a","t","i","o","n">>
duration_sec_col == <<"d","u","r","a","t","i","o","n","_","s","e","c">>

\* a dict as a set of <<key, value>> pairs
Keys(mapping) == {p[1] : p \in mapping}
Values(mapping) == {p[2] : p \in mapping}
Get(mapping, key) == (CHOOSE p \in mapping : p[1] = key)[2]

\* df[col] = value: the column is added, or overwritten when it exists
SetColumn(df, col, value) ==
    [cols |-> df.cols \cup {col},
     rows |-> [i \in 1..Len(df.rows) |->
                 [c \in df.cols \cup {col} |->
                     IF c = col THEN value ELSE df.rows[i][c]]]]

\* DataFrame.rename(columns=mapping): a column whose name is a key of the
\* mapping, exactly as spelled, takes the mapped name; every other column
\* stays under its own name
Rename(df, mapping) ==
    LET NewName(c) == IF c \in Keys(mapping) THEN Get(mapping, c) ELSE c
        newCols == {NewName(c) : c \in df.cols}
    IN  [cols |-> newCols,
         rows |-> [i \in 1..Len(df.rows) |->
                     [n \in newCols |->
                         df.rows[i][CHOOSE c \in df.cols : NewName(c) = n]]]]

(***************************************************************************)
(* Field normalizers                                                       *)
(***************************************************************************)
viewing_column_mapping ==
    { <<<<"s","t","a","r","t"," ","t","i","m","e">>, <<"s","t","a","r","t","_","t","i","m","e">>>>,
      <<<<"d","u","r","a","t","i","o","n">>, <<"d","u","r","a","t","i","o","n">>>>,
      <<<<"t","i","t","l","e">>, <<"t","i","t","l","e">>>>,
      <<<<"p","r","o","f","i","l","e"," ","n","a","m","e">>, <<"p","r","o","f","i","l","e","_","n","a","m","e">>>>,
      <<<<"d","e","v","i","c","e"," ","t","y","p","e">>, <<"d","e","v","i","c","e","_","t","y","p","e">>>>,
      <<<<"c","o","u","n","t","r","y">>, <<"c","o","u","n","t","r","y">>>>,
      <<<<"b","o","o","k","m","a","r","k">>, <<"b","o","o","k","m","a","r","k">>>>,
      <<<<"l","a","t","e","s","t"," ","b","o","o","k","m","a","r","k">>, <<"l","a","t","e","s","t","_","b","o","o","k","m","a","r","k">>>>,
      <<<<"s","u","p","p","l","e","m","e","n","t","a","l"," ","v","i","d","e","o"," ","t","y","p","e">>, <<"s","u","p","p","l","e","m","e","n","t","a","l","_","v","i","d","e","o","_","t","y","p","e">>>>,
      <<<<"a","t","t","r","i","b","u","t","e","s">>, <<"a","t","t","r","i","b","u","t","e","s">>>> }

billing_column_mapping ==
    { <<<<"t","r","a","n","s","a","c","t","i","o","n"," ","d","a","t","e">>, <<"t","r","a","n","s","a","c","t","i","o","n","_","d","a","t","e">>>>,
      <<<<"c","o","u","n","t","r","y">>, <<"c","o","u","n","t","r","y">>>>,
      <<<<"m","o","p"," ","l","a","s","t"," ","4">>, <<"m","o","p","_","l","a","s","t","_","4">>>>,
      <<<<"f","i","n","a","l"," ","i","n","v","o","i","c","e"," ","r","e","s","u","l","t">>, <<"f","i","n","a","l","_","i","n","v","o","i","c","e","_","r","e","s","u","l","t">>>>,
      <<<<"m","o","p"," ","p","m","t"," ","p","r","o","c","e","s","s","o","r"," ","d","e","s","c">>, <<"m","o","p","_","p","m","t","_","p","r","o","c","e","s","s","o","r","_","d","e","s","c">>>>,
      <<<<"p","m","t"," ","t","x","n"," ","t","y","p","e">>, <<"p","m","t","_","t","x","n","_","t","y","p","e">>>>,
      <<<<"d","e","s","c","r","i","p","t","i","o","n">>, <<"d","e","s","c","r","i","p","t","i","o","n">>>>,
      <<<<"g","r","o","s","s"," ","s","a","l","e"," ","a","m","t">>, <<"g","r","o","s","s","_","s","a","l","e","_","a","m","t">>>>,
      <<<<"p","m","t"," ","s","t","a","t","u","s">>, <<"p","m","t","_","s","t","a","t","u","s">>>>,
      <<<<"p","a","y","m","e","n","t"," ","t","y","p","e">>, <<"p","a","y","m","e","n","t","_","t","y","p","e">>>>,
      <<<<"t","a","x"," ","a","m","t">>, <<"t","a","x","_","a","m","t">>>>,
      <<<<"s","e","r","v","i","c","e"," ","p","e","r","i","o","d"," ","s","t","a","r","t"," ","d","a","t","e">>, <<"s","e","r","v","i","c","e","_","p","e","r","i","o","d","_","s","t","a","r","t","_","d","a","t","e">>>>,
      <<<<"i","t","e","m"," ","p","r","i","c","e"," ","a","m","t">>, <<"i","t","e","m","_","p","r","i","c","e","_","a","m","t">>>>,
      <<<<"m","o","p"," ","c","r","e","a","t","i","o","n"," ","d","a","t","e">>, <<"m","o","p","_","c","r","e","a","t","i","o","n","_","d","a","t","e">>>>,
      <<<<"c","u","r","r","e","n","c","y">>, <<"c","u","r","r","e","n","c","y">>>>,
      <<<<"n","e","x","t"," ","b","i","l","l","i","n","g"," ","d","a","t","e">>, <<"n","e","x","t","_","b","i","l","l","i","n","g","_","d","a","t","e">>>>,
      <<<<"s","e","r","v","i","c","e"," ","p","e","r","i","o","d"," ","e","n","d"," ","d","a","t","e">>, <<"s","e","r","v","i","c","e","_","p","e","r","i","o","d","_","e","n","d","_","d","a","t","e">>>> }

numeric_columns == { <<"g","r","o","s","s","_","s","a","l","e","_","a","m","t">>, <<"t","a","x","_","a","m","t">>, <<"i","t","e","m","_","p","r","i","c","e","_","a","m","t">> }

\* an account_id column the file brought along is kept
InjectAccountIdIfAbsent(df, id) ==
    IF account_id_col \in df.cols THEN df ELSE SetColumn(df, account_id_col, id)

\* df['account_id'] = account_id
InjectAccountId(df, id) == SetColumn(df, account_id_col, id)

\* lines 64-65: the duration_sec column, added when the frame has a column
\* named duration
AddDurationSec(df) ==
    IF duration_col \in df.cols
    THEN [cols |-> df.cols \cup {duration_sec_col},
          rows |-> [i \in 1..Len(df.rows) |->
                      [c \in df.cols \cup {duration_sec_col} |->
                          IF c = duration_sec_col
                          THEN _parse_duration(df.rows[i][duration_col])
                          ELSE df.rows[i][c]]]]
    ELSE df

_process_viewing_activity(df, id) ==
    AddDurationSec(Rename(InjectAccountId(df, id), viewing_column_mapping))

\* the numeric_columns loop: each such column the frame has is coerced
RECURSIVE CoerceColumns(_, _)
CoerceColumns(df, todo) ==
    IF todo = {} THEN df
    ELSE LET col == CHOOSE c \in todo : TRUE
             series == [i \in 1..Len(df.rows) |-> df.rows[i][col]]
             coerced == CoerceSeries(series)
             next == IF col \in df.cols
                     THEN [cols |-> df.cols,
                           rows |-> [i \in 1..Len(df.rows) |->
                                       [df.rows[i] EXCEPT ![col] = coerced[i]]]]
                     ELSE df
         IN  CoerceColumns(next, todo \ {col})

_process_billing_history(df, id) ==
    CoerceColumns(Rename(InjectAccountId(df, id), billing_column_mapping),
                  numeric_columns)

(***************************************************************************)
(* The datastore sink: DataFrame.to_sql(name, conn, if_exists="append")    *)
(***************************************************************************)
\* if_exists="replace": the relation is dropped and created anew
to_sql_replace(table, df) ==
    [raised |-> FALSE,
     table |-> [exists |-> TRUE, cols |-> df.cols, rows |-> df.rows]]

\* The relation is created with the frame's columns when it does not exist.
\* Otherwise the rows are inserted, a column the frame lacks left NULL, and
\* the insert raises when the frame has a column the relation has not.
to_sql(table, df) ==
    IF ~table.exists
    THEN [raised |-> FALSE,
          table |-> [exists |-> TRUE, cols |-> df.cols, rows |-> df.rows]]
    ELSE IF df.cols \subseteq table.cols
    THEN [raised |-> FALSE,
          table |-> [table EXCEPT !.rows = table.rows \o
                        [i \in 1..Len(df.rows) |->
                            [c \in table.cols |->
                                IF c \in df.cols THEN df.rows[i][c] ELSE NaN]]]]
    ELSE [raised |-> TRUE, table |-> table]

(***************************************************************************)
(* Identity: Refiner._hash_wallet_address and lines 132-139 of transform   *)
(***************************************************************************)
\* hashlib.sha256(wallet_address.encode()).hexdigest()[:16], kept symbolic:
\* the digest prefix of a text is a value that names the text hashed
_hash_wallet_address(wallet_address) == <<"sha256[:16]", wallet_address>>

\* `if not wallet_address` holds for an unset and for an empty variable
DeriveAccountId(wallet) ==
    _hash_wallet_address(IF wallet = None \/ wallet = "" THEN "unknown" ELSE wallet)

(***************************************************************************)
(* Harnesses of the three pure functions.  Each draws its input from a     *)
(* bounded set and applies the function once; the pipeline does not move.  *)
(***************************************************************************)
MaxCols == 3
MaxRespell == 2
MaxDurLen == 5
MaxMonLen == 4

TextsUpTo(alphabet, n) == UNION {[1..k -> alphabet] : k \in 0..n}

EmptyTable == [exists |-> FALSE, cols |-> {}, rows |-> << >>]
EmptyDb == [viewing_activity |-> EmptyTable, billing_history |-> EmptyTable]
NoCounts == [viewing_activity |-> 0, billing_history |-> 0]
\* no account_id derived yet, and no Output returned yet
NoAccount == <<"none">>
NoOutput == [schema |-> "", refinement_url |-> ""]
NoCall == [shape |-> "none", raw |-> [cols |-> {}, rows |-> << >>],
           out |-> [cols |-> {}, rows |-> << >>]]

PipeIdle ==
    /\ listing = << >>
    /\ env_wallet = None
    /\ pc = "idle"
    /\ idx = 1
    /\ run = 0
    /\ account_id = NoAccount
    /\ db = EmptyDb
    /\ dist = {}
    /\ returned = NoOutput
    /\ failedAt = None
    /\ last = NoCall
    /\ runStart = NoCounts
    /\ firstRun = NoCounts

ClsIdle == cls = [cols |-> {}, label |-> "unset", cols0 |-> {}, label0 |-> "unset", n |-> 0]
DurIdle == dur = [input |-> NaN, done |-> FALSE, out |-> 0]
MonIdle == mon = [input |-> << >>, done |-> FALSE, out |-> << >>]

\* ---- classifier harness ----
\* "title", "Duration", " start time", "currency", "Pmt Status",
\* "GROSS SALE AMT ", "country", "foo"
ColumnPool ==
    { <<"t","i","t","l","e">>, <<"D","u","r","a","t","i","o","n">>, <<" ","s","t","a","r","t"," ","t","i","m","e">>, <<"c","u","r","r","e","n","c","y">>, <<"P","m","t"," ","S","t","a","t","u","s">>,
      <<"G","R","O","S","S"," ","S","A","L","E"," ","A","M","T"," ">>, <<"c","o","u","n","t","r","y">>, <<"f","o","o">> }

ColumnSets == {c \in SUBSET ColumnPool : Cardinality(c) <= MaxCols}

\* str.title(): the first letter of every word in upper case, the rest in lower
Capitalize(s) ==
    [i \in 1..Len(s) |->
        IF i = 1 \/ s[i - 1] \in Whitespace THEN UpperChar(s[i]) ELSE LowerChar(s[i])]

\* the spellings of a name that differ in letter case or in one more
\* surrounding whitespace character
Respellings(name) ==
    {Upper(name), Lower(name), Capitalize(name),
     <<" ">> \o name, name \o <<" ">>, <<"\t">> \o name, name \o <<"\t">>}

InitClassify ==
    /\ PipeIdle /\ DurIdle /\ MonIdle
    /\ \E c \in ColumnSets :
          cls = [cols |-> c, label |-> "unset", cols0 |-> c, label0 |-> "unset", n |-> 0]

\* _detect_file_type on the frame's current column names
ClassifyStep ==
    /\ cls.label = "unset"
    /\ cls' = [cls EXCEPT !.label = _detect_file_type(cls.cols),
                          !.label0 = IF cls.n = 0 THEN _detect_file_type(cls.cols)
                                     ELSE cls.label0]
    /\ UNCHANGED <<pipeVars, dur, mon>>

\* the same table with one column name spelled differently
RespellStep ==
    /\ cls.label # "unset"
    /\ cls.n < MaxRespell
    /\ \E name \in cls.cols : \E other \in Respellings(name) :
          /\ other \notin cls.cols
          /\ cls' = [cls EXCEPT !.cols = (cls.cols \ {name}) \cup {other},
                                !.label = "unset",
                                !.n = cls.n + 1]
    /\ UNCHANGED <<pipeVars, dur, mon>>

NextClassify == ClassifyStep \/ RespellStep
SpecClassify == InitClassify /\ [][NextClassify]_vars

\* ---- duration harness ----
DurAlphabet == {"1", "7", ":", "-", "_", " ", "x"}
\* "1:23:45", "23:45", "bad", "-1:00", "+1:02:03", "00:00:59", "1:2:3:4",
\* "01:1.5", "12:34:56"
DurationExamples ==
    { <<"1",":","2","3",":","4","5">>, <<"2","3",":","4","5">>, <<"b","a","d">>, <<"-","1",":","0","0">>, <<"+","1",":","0","2",":","0","3">>, <<"0","0",":","0","0",":","5","9">>,
      <<"1",":","2",":","3",":","4">>, <<"0","1",":","1",".","5">>, <<"1","2",":","3","4",":","5","6">> }
DurationInputs == TextsUpTo(DurAlphabet, MaxDurLen) \cup DurationExamples \cup {NaN}

InitDuration ==
    /\ PipeIdle /\ ClsIdle /\ MonIdle
    /\ \E v \in DurationInputs : dur = [input |-> v, done |-> FALSE, out |-> 0]

\* Series.apply(self._parse_duration), one cell
ParseDurationStep ==
    /\ ~dur.done
    /\ dur' = [dur EXCEPT !.done = TRUE, !.out = _parse_duration(dur.input)]
    /\ UNCHANGED <<pipeVars, cls, mon>>

NextDuration == ParseDurationStep
SpecDuration == InitDuration /\ [][NextDuration]_vars

\* ---- monetary harness ----
MonAlphabet == {"$", ",", "-", ".", "1", "5", "a"}
\* "$1,234.56", "abc", "-5.00", "$$2" and a missing cell
MonExamples == { <<"$","1",",","2","3","4",".","5","6">>, <<"a","b","c">>, <<"-","5",".","0","0">>, <<"$","$","2">>, NaN }
MonInputs == TextsUpTo(MonAlphabet, MaxMonLen) \cup MonExamples
\* a column of one cell, or of an example cell followed by one cell
MonSeries == {<<c>> : c \in MonInputs} \cup {<<e, c>> : e \in MonExamples, c \in MonInputs}

InitMoney ==
    /\ PipeIdle /\ ClsIdle /\ DurIdle
    /\ \E series \in MonSeries : mon = [input |-> series, done |-> FALSE, out |-> << >>]

CoerceMoneyStep ==
    /\ ~mon.done
    /\ mon' = [mon EXCEPT !.done = TRUE, !.out = CoerceSeries(mon.input)]
    /\ UNCHANGED <<pipeVars, cls, dur>>

NextMoney == CoerceMoneyStep
SpecMoney == InitMoney /\ [][NextMoney]_vars


(***************************************************************************)
(* Properties of the pure functions                                        *)
(***************************************************************************)
\* raw is ind up to letter case and surrounding whitespace: a run of
\* whitespace, then ind's characters each in either case, then whitespace
SpellsAs(raw, ind) ==
    \E a \in 0..Len(raw) :
        LET b == Len(raw) - a - Len(ind)
        IN  /\ b >= 0
            /\ \A i \in 1..a : raw[i] \in Whitespace
            /\ \A i \in (Len(raw) - b + 1)..Len(raw) : raw[i] \in Whitespace
            /\ \A k \in 1..Len(ind) : raw[a + k] \in {ind[k], UpperChar(ind[k])}

IndicatorCount(columns, indicators) ==
    Cardinality({ind \in indicators : \E raw \in columns : SpellsAs(raw, ind)})

\* C1: the label of a column set is the shape whose indicators it names more
\* of, up to letter case and surrounding whitespace, and unknown on a tie;
\* respelling a column in another case or with more surrounding whitespace
\* leaves the label what it was for the original column set.
C1_ClassifierByStrictMajority ==
    cls.label # "unset" =>
        LET v == IndicatorCount(cls.cols, viewing_indicators)
            b == IndicatorCount(cls.cols, billing_indicators)
        IN  /\ v > b => cls.label = "viewing"
            /\ b > v => cls.label = "billing"
            /\ v = b => cls.label = "unknown"
            /\ cls.label = cls.label0

\* a respelled column set with one indicator of each shape: a 1-1 tie
C1_Witness ==
    /\ cls.label = "unknown"
    /\ cls.n >= 1
    /\ IndicatorCount(cls.cols, viewing_indicators) = 1
    /\ IndicatorCount(cls.cols, billing_indicators) = 1
    /\ \E c \in cls.cols : c \notin ColumnPool

\* the positions of the ':' characters of a text, in order
ColonPositions(text) == {i \in 1..Len(text) : text[i] = ":"}

\* an integer as int() reads one: [ws] [+-] digit (['_'] digit)* [ws]
IsIntegerText(part) ==
    \E a \in 1..Len(part) : \E z \in a..Len(part) :
        LET first == IF part[a] \in {"+", "-"} THEN a + 1 ELSE a
        IN  /\ \A i \in 1..(a - 1) : part[i] \in Whitespace
            /\ \A i \in (z + 1)..Len(part) : part[i] \in Whitespace
            /\ first <= z
            /\ IsDigit(part[first]) /\ IsDigit(part[z])
            /\ \A i \in first..z :
                  \/ IsDigit(part[i])
                  \/ part[i] = "_" /\ IsDigit(part[i - 1]) /\ IsDigit(part[i + 1])

\* the value of an integer text: its digits read in base ten, negated after '-'
IntegerValue(part) ==
    LET ds == SelectSeq(part, IsDigit)
        magnitude == DigitsValue(ds)
    IN  IF \E i \in 1..Len(part) : part[i] = "-" THEN 0 - magnitude ELSE magnitude

\* C5: H:M:S gives H*3600 + M*60 + S, M:S gives M*60 + S, and every other
\* value (another part count, an empty or missing value, a part that is no
\* integer) gives 0.
C5_ParseDuration ==
    dur.done =>
        LET v == dur.input
            colons == IF v = NaN THEN {} ELSE ColonPositions(v)
            Part(k) ==
                LET lo == IF k = 1 THEN 0
                          ELSE CHOOSE i \in colons : Cardinality({j \in colons : j < i}) = k - 2
                    hi == IF k = Cardinality(colons) + 1 THEN Len(v) + 1
                          ELSE CHOOSE i \in colons : Cardinality({j \in colons : j < i}) = k - 1
                IN  SubSeq(v, lo + 1, hi - 1)
        IN  /\ v = NaN \/ v = << >> => dur.out = 0
            /\ v # NaN /\ Cardinality(colons) = 2 =>
                  IF \A k \in 1..3 : IsIntegerText(Part(k))
                  THEN dur.out = IntegerValue(Part(1)) * 3600
                                 + IntegerValue(Part(2)) * 60 + IntegerValue(Part(3))
                  ELSE dur.out = 0
            /\ v # NaN /\ Cardinality(colons) = 1 =>
                  IF \A k \in 1..2 : IsIntegerText(Part(k))
                  THEN dur.out = IntegerValue(Part(1)) * 60 + IntegerValue(Part(2))
                  ELSE dur.out = 0
            /\ v # NaN /\ Cardinality(colons) \notin {1, 2} => dur.out = 0
            /\ v = <<"1",":","2","3",":","4","5">> => dur.out = 5025
            /\ v = <<"2","3",":","4","5">> => dur.out = 1425
            /\ v = <<"b","a","d">> => dur.out = 0

\* "1:23:45" has been parsed to 5025
C5_Witness == dur.done /\ dur.input = <<"1",":","2","3",":","4","5">> /\ dur.out = 5025

\* a decimal text: an optional sign, then digits with at most one '.' among
\* them and at least one digit
IsDecimalText(text) ==
    LET first == IF text # << >> /\ text[1] \in {"+", "-"} THEN 2 ELSE 1
    IN  /\ \A i \in first..Len(text) : IsDigit(text[i]) \/ text[i] = "."
        /\ Cardinality({i \in first..Len(text) : text[i] = "."}) <= 1
        /\ \E i \in first..Len(text) : IsDigit(text[i])

\* x is the amount the decimal text denotes
DenotesAmount(x, text) ==
    LET magnitude == DigitsValue(SelectSeq(text, IsDigit))
        dots == {i \in 1..Len(text) : text[i] = "."}
        places == IF dots = {} THEN 0 ELSE Len(text) - (CHOOSE i \in dots : TRUE)
        signedValue == IF text[1] = "-" THEN 0 - magnitude ELSE magnitude
    IN  ~x.nan /\ x.num * Pow10(places) = signedValue * Pow10(x.scale)

IsZeroAmount(x) == ~x.nan /\ x.num = 0

\* C6: every cell of a monetary column becomes the amount its text denotes
\* once every '$' and ',' is taken out, or 0.0 when that is no decimal or the
\* cell is missing; the column keeps one value per row, and a negative amount
\* stays negative.
C6_MonetaryCoercion ==
    mon.done =>
        /\ Len(mon.out) = Len(mon.input)
        /\ \A i \in 1..Len(mon.input) :
              LET cell == mon.input[i]
                  IsKept(c) == c \notin {"$", ","}
                  kept == IF cell = NaN THEN << >> ELSE SelectSeq(cell, IsKept)
              IN  /\ IsDecimalText(kept) => DenotesAmount(mon.out[i], kept)
                  /\ ~IsDecimalText(kept) => IsZeroAmount(mon.out[i])
                  /\ cell = <<"$","1",",","2","3","4",".","5","6">> => mon.out[i] = [nan |-> FALSE, num |-> 123456, scale |-> 2]
                  /\ cell = <<"-","5",".","0","0">> => mon.out[i] = [nan |-> FALSE, num |-> 0 - 5, scale |-> 0]
                  /\ cell = <<"a","b","c">> => IsZeroAmount(mon.out[i])

\* a column holding "$1,234.56" and then an unparseable cell has been coerced
C6_Witness ==
    /\ mon.done
    /\ Len(mon.input) = 2
    /\ mon.input[1] = <<"$","1",",","2","3","4",".","5","6">>
    /\ mon.input[2] = <<"a","$">>
    /\ mon.out[1].num = 123456
    /\ IsZeroAmount(mon.out[2])


(***************************************************************************)
(* The orchestrator: Refiner.transform                                     *)
(***************************************************************************)
MaxFiles == 2
MaxRuns == 2

\* the frame read_csv gives for a header and the rows under it
DF(header, rows) ==
    [cols |-> Range(header),
     rows |-> [i \in 1..Len(rows) |->
                 [c \in Range(header) |-> rows[i][IndexOf(c, header)]]]]

NoFrame == [cols |-> {}, rows |-> << >>]

\* directory entries: a name, whether read_csv can parse it, and its content
\*   a.csv      start time,duration,title      (d1,1:23:45,Up) (d2,-1:00,)
\*   B.CSV      Start Time,Duration,Title      (d3,2:00,Up)
\*   f.csv      title,bookmark,foo             (Up,0:10,x)
\*   c.csv      transaction date,gross sale amt,currency,account_id
\*                                             (d1,$1,234.56,USD,me) (d2,abc,USD,me)
\*   g.csv      Transaction Date,Gross Sale Amt,Currency   (d4,$10.00,USD)
\*   d.csv      foo,bar                        (1,2)
\*   e.csv      not parseable
\*   notes.txt and .csv: entries without the .csv extension
FilePool ==
    { [name |-> <<"a",".","c","s","v">>, readable |-> TRUE,
       df |-> DF(<<<<"s","t","a","r","t"," ","t","i","m","e">>, <<"d","u","r","a","t","i","o","n">>, <<"t","i","t","l","e">>>>,
                 << <<<<"d","1">>, <<"1",":","2","3",":","4","5">>, <<"U","p">>>>,
                    <<<<"d","2">>, <<"-","1",":","0","0">>, NaN>> >>)],
      [name |-> <<"B",".","C","S","V">>, readable |-> TRUE,
       df |-> DF(<<<<"S","t","a","r","t"," ","T","i","m","e">>, <<"D","u","r","a","t","i","o","n">>, <<"T","i","t","l","e">>>>,
                 << <<<<"d","3">>, <<"2",":","0","0">>, <<"U","p">>>> >>)],
      [name |-> <<"f",".","c","s","v">>, readable |-> TRUE,
       df |-> DF(<<<<"t","i","t","l","e">>, <<"b","o","o","k","m","a","r","k">>, <<"f","o","o">>>>,
                 << <<<<"U","p">>, <<"0",":","1","0">>, <<"x">>>> >>)],
      [name |-> <<"c",".","c","s","v">>, readable |-> TRUE,
       df |-> DF(<<<<"t","r","a","n","s","a","c","t","i","o","n"," ","d","a","t","e">>, <<"g","r","o","s","s"," ","s","a","l","e"," ","a","m","t">>, <<"c","u","r","r","e","n","c","y">>, <<"a","c","c","o","u","n","t","_","i","d">>>>,
                 << <<<<"d","1">>, <<"$","1",",","2","3","4",".","5","6">>, <<"U","S","D">>, <<"m","e">>>>,
                    <<<<"d","2">>, <<"a","b","c">>, <<"U","S","D">>, <<"m","e">>>> >>)],
      [name |-> <<"g",".","c","s","v">>, readable |-> TRUE,
       df |-> DF(<<<<"T","r","a","n","s","a","c","t","i","o","n"," ","D","a","t","e">>, <<"G","r","o","s","s"," ","S","a","l","e"," ","A","m","t">>, <<"C","u","r","r","e","n","c","y">>>>,
                 << <<<<"d","4">>, <<"$","1","0",".","0","0">>, <<"U","S","D">>>> >>)],
      [name |-> <<"d",".","c","s","v">>, readable |-> TRUE,
       df |-> DF(<<<<"f","o","o">>, <<"b","a","r">>>>, << <<<<"1">>, <<"2">>>> >>)],
      [name |-> <<"e",".","c","s","v">>, readable |-> FALSE, df |-> NoFrame],
      [name |-> <<"n","o","t","e","s",".","t","x","t">>, readable |-> FALSE, df |-> NoFrame],
      [name |-> <<".","c","s","v">>, readable |-> FALSE, df |-> NoFrame] }

\* the listings of a directory: no two entries are the same file
Listings ==
    {l \in UNION {[1..k -> FilePool] : k \in 0..MaxFiles} :
        \A i, j \in 1..Len(l) : i # j => l[i] # l[j]}

Wallets == {None, "", "0xA", "0xB"}

\* os.path.splitext(name)[1]: from the last '.', unless only dots precede it
SplitExt(name) ==
    LET dots == {i \in 1..Len(name) : name[i] = "."}
        lastDot == CHOOSE i \in dots : \A j \in dots : j <= i
    IN  IF dots = {} \/ \A i \in 1..(lastDot - 1) : name[i] = "."
        THEN << >>
        ELSE SubSeq(name, lastDot, Len(name))

\* line 146
IsCsv(entry) == Lower(SplitExt(entry.name)) = <<".","c","s","v">>

Counts(d) == [viewing_activity |-> Len(d.viewing_activity.rows),
              billing_history |-> Len(d.billing_history.rows)]

DistributionSteps == {"upload_schema", "encrypt", "upload_db"}

Init ==
    /\ listing \in Listings
    /\ env_wallet = None
    /\ pc = "idle"
    /\ idx = 1
    /\ run = 0
    /\ account_id = NoAccount
    /\ db = EmptyDb
    /\ dist = {}
    /\ returned = NoOutput
    /\ failedAt = None
    /\ last = NoCall
    /\ runStart = NoCounts
    /\ firstRun = NoCounts
    /\ ClsIdle /\ DurIdle /\ MonIdle

\* an exception leaves transform(): the run is over and nothing is returned
Raise(step) ==
    /\ pc' = "failed"
    /\ failedAt' = step
    /\ firstRun' = IF run = 1 THEN Counts(db) ELSE firstRun
    /\ UNCHANGED <<listing, env_wallet, idx, run, account_id, db, dist, returned,
                   last, runStart>>

\* lines 129-143: a call of transform() on the directory, up to the loop
StartRun ==
    /\ UNCHANGED harnessVars
    /\ pc \in {"idle", "done", "failed"}
    /\ run < MaxRuns
    /\ \E wallet \in Wallets :
          /\ env_wallet' = wallet
          /\ account_id' = DeriveAccountId(wallet)
    /\ pc' = "files"
    /\ idx' = 1
    /\ run' = run + 1
    /\ dist' = {}
    /\ returned' = NoOutput
    /\ failedAt' = None
    /\ last' = NoCall
    /\ runStart' = Counts(db)
    /\ UNCHANGED <<listing, db, firstRun>>

\* line 146 is false: the entry is passed over
SkipEntry ==
    /\ UNCHANGED harnessVars
    /\ pc = "files"
    /\ idx <= Len(listing)
    /\ ~IsCsv(listing[idx])
    /\ idx' = idx + 1
    /\ UNCHANGED <<listing, env_wallet, pc, run, account_id, db, dist, returned,
                   failedAt, last, runStart, firstRun>>

\* the file is left out and the loop goes on
OnReadFailureSkip ==
    /\ idx' = idx + 1
    /\ UNCHANGED <<listing, env_wallet, pc, run, account_id, db, dist, returned,
                   failedAt, last, runStart, firstRun>>

\* line 150 raises: nothing catches it
OnReadFailure == Raise("read_csv")

\* an unknown file ends the run
OnUnknownAbort == Raise("unknown")

\* lines 167-168: a warning is logged and the loop goes on
OnUnknown ==
    /\ idx' = idx + 1
    /\ UNCHANGED <<listing, env_wallet, pc, run, account_id, db, dist, returned,
                   failedAt, last, runStart, firstRun>>

\* lines 157-158 and 163-164: normalize, then append to the shape's relation
AppendNormalized(relation, shape, df, processed) ==
    LET res == to_sql(db[relation], processed)
    IN  IF res.raised
        THEN Raise("to_sql")
        ELSE /\ db' = [db EXCEPT ![relation] = res.table]
             /\ last' = [shape |-> shape, raw |-> df, out |-> processed]
             /\ idx' = idx + 1
             /\ UNCHANGED <<listing, env_wallet, pc, run, account_id, dist,
                            returned, failedAt, runStart, firstRun>>

\* lines 147-168: one .csv entry of the loop
ProcessFile ==
    /\ UNCHANGED harnessVars
    /\ pc = "files"
    /\ idx <= Len(listing)
    /\ IsCsv(listing[idx])
    /\ LET entry == listing[idx]
           df == entry.df
           file_type == _detect_file_type(df.cols)
       IN  \/ /\ ~entry.readable
              /\ OnReadFailure
           \/ /\ entry.readable
              /\ file_type = "viewing"
              /\ AppendNormalized("viewing_activity", "viewing", df,
                                  _process_viewing_activity(df, account_id))
           \/ /\ entry.readable
              /\ file_type = "billing"
              /\ AppendNormalized("billing_history", "billing", df,
                                  _process_billing_history(df, account_id))
           \/ /\ entry.readable
              /\ file_type = "unknown"
              /\ OnUnknown

\* open() or json.load() of lines 172-173 raises
OnSchemaFailure == Raise("schema")

\* lines 170-183: the loop is over; schema.json is read
LoadSchema ==
    /\ UNCHANGED harnessVars
    /\ pc = "files"
    /\ idx > Len(listing)
    /\ \/ /\ pc' = "upload_schema"
          /\ UNCHANGED <<listing, env_wallet, idx, run, account_id, db, dist,
                         returned, failedAt, last, runStart, firstRun>>
       \/ OnSchemaFailure

\* line 186: upload_json_to_ipfs returns or raises
UploadSchema ==
    /\ UNCHANGED harnessVars
    /\ pc = "upload_schema"
    /\ \/ /\ pc' = "encrypt"
          /\ dist' = dist \cup {"upload_schema"}
          /\ UNCHANGED <<listing, env_wallet, idx, run, account_id, db, returned,
                         failedAt, last, runStart, firstRun>>
       \/ /\ pc' = "failed"
          /\ failedAt' = "upload_schema"
          /\ dist' = dist \cup {"upload_schema"}
          /\ firstRun' = IF run = 1 THEN Counts(db) ELSE firstRun
          /\ UNCHANGED <<listing, env_wallet, idx, run, account_id, db, returned,
                         last, runStart>>

\* line 190: encrypt_file returns or raises
EncryptFile ==
    /\ UNCHANGED harnessVars
    /\ pc = "encrypt"
    /\ \/ /\ pc' = "upload_db"
          /\ dist' = dist \cup {"encrypt"}
          /\ UNCHANGED <<listing, env_wallet, idx, run, account_id, db, returned,
                         failedAt, last, runStart, firstRun>>
       \/ /\ pc' = "failed"
          /\ failedAt' = "encrypt"
          /\ dist' = dist \cup {"encrypt"}
          /\ firstRun' = IF run = 1 THEN Counts(db) ELSE firstRun
          /\ UNCHANGED <<listing, env_wallet, idx, run, account_id, db, returned,
                         last, runStart>>

\* lines 191-195: upload_file_to_ipfs returns, and the Output is returned,
\* or it raises
UploadDb ==
    /\ UNCHANGED harnessVars
    /\ pc = "upload_db"
    /\ \/ /\ pc' = "done"
          /\ dist' = dist \cup {"upload_db"}
          /\ returned' = [schema |-> "netflix-csv 1.0.0",
                          refinement_url |-> "IPFS_GATEWAY_URL/ipfs_hash"]
          /\ firstRun' = IF run = 1 THEN Counts(db) ELSE firstRun
          /\ UNCHANGED <<listing, env_wallet, idx, run, account_id, db, failedAt,
                         last, runStart>>
       \/ /\ pc' = "failed"
          /\ failedAt' = "upload_db"
          /\ dist' = dist \cup {"upload_db"}
          /\ firstRun' = IF run = 1 THEN Counts(db) ELSE firstRun
          /\ UNCHANGED <<listing, env_wallet, idx, run, account_id, db, returned,
                         last, runStart>>

Next ==
    \/ StartRun
    \/ SkipEntry
    \/ ProcessFile
    \/ LoadSchema
    \/ UploadSchema
    \/ EncryptFile
    \/ UploadDb

Spec == Init /\ [][Next]_vars


(***************************************************************************)
(* Properties of the normalizers and of the orchestrator                   *)
(***************************************************************************)
Mapping(shape) ==
    IF shape = "viewing" THEN viewing_column_mapping ELSE billing_column_mapping

\* the canonical field names of a shape
CanonicalFields(shape) ==
    IF shape = "viewing"
    THEN Values(viewing_column_mapping) \cup {account_id_col, duration_sec_col}
    ELSE Values(billing_column_mapping) \cup {account_id_col}

Relations == {"viewing_activity", "billing_history"}

\* C2: a raw column whose lower-cased name is a key of the shape's mapping
\* comes out under the canonical name, with the values the lower-case
\* spelling of the column would give.
C2_RenameCaseInsensitive ==
    last.shape # "none" =>
        \A c \in last.raw.cols :
            Lower(c) \in Keys(Mapping(last.shape)) =>
                LET canon == Get(Mapping(last.shape), Lower(c))
                IN  /\ canon \in last.out.cols
                    /\ \A i \in 1..Len(last.raw.rows) :
                          last.out.rows[i][canon] =
                              IF last.shape = "billing" /\ canon \in numeric_columns
                              THEN CoerceAmount(last.raw.rows[i][c])
                              ELSE last.raw.rows[i][c]

\* C3: the records a normalizer gives, and the relations they are appended
\* to, have canonical field names of the shape only.
C3_OnlyCanonicalFields ==
    /\ last.shape # "none" => last.out.cols \subseteq CanonicalFields(last.shape)
    /\ db.viewing_activity.cols \subseteq CanonicalFields("viewing")
    /\ db.billing_history.cols \subseteq CanonicalFields("billing")

\* C4: every ViewingActivity record has a duration_sec that is an integer
\* not below 0.
C4_DurationSecNonNegative ==
    last.shape = "viewing" =>
        /\ duration_sec_col \in last.out.cols
        /\ \A i \in 1..Len(last.out.rows) : last.out.rows[i][duration_sec_col] >= 0

\* the rows the current run appended to a relation
AppendedRows(relation) ==
    SubSeq(db[relation].rows, runStart[relation] + 1, Len(db[relation].rows))

C7_SharedAccountId ==
    pc # "idle" =>
        /\ account_id # NoAccount
        /\ account_id = <<"sha256[:16]",
                          IF env_wallet \in {None, ""} THEN "unknown" ELSE env_wallet>>
        /\ \A relation \in Relations :
              \A i \in 1..Len(AppendedRows(relation)) :
                  /\ account_id_col \in DOMAIN AppendedRows(relation)[i]
                  /\ AppendedRows(relation)[i][account_id_col] = account_id

C7_DerivedOnce ==
    account_id' # account_id =>
        /\ pc \in {"idle", "done", "failed"}
        /\ pc' = "files" /\ idx' = 1 /\ run' = run + 1
        /\ db' = db

\* C7: within a run the account identifier is the hash of the secret, or of
\* the fallback token when the secret is absent; it is set only by the step
\* that starts the run, before any file is handled; and every row the run
\* appends to either relation carries it.
C7_AccountIdOncePerRun == []C7_SharedAccountId /\ [][C7_DerivedOnce]_vars

\* a second run under another secret has appended billing rows: they carry
\* its identifier, the first run's rows carry the other one
C7_Witness ==
    /\ run = 2
    /\ runStart.billing_history > 0
    /\ Len(db.billing_history.rows) > runStart.billing_history
    /\ db.billing_history.rows[1][account_id_col] # account_id
    /\ db.billing_history.rows[Len(db.billing_history.rows)][account_id_col] = account_id
    /\ <<"a","c","c","o","u","n","t","_","i","d">> \in last.raw.cols

\* the entry the loop is at is passed over: not a .csv, or of unknown shape
IsPassedOver(entry) ==
    \/ ~IsCsv(entry)
    \/ entry.readable /\ _detect_file_type(entry.df.cols) = "unknown"

\* C8: the step for an entry that is no .csv, or a .csv of unknown shape,
\* appends nothing and raises nothing: the loop is then at the next entry.
C8_UnknownNeverAborts ==
    [][(pc = "files" /\ idx <= Len(listing) /\ IsPassedOver(listing[idx])) =>
          /\ db' = db
          /\ pc' = "files"
          /\ failedAt' = None
          /\ idx' = idx + 1]_vars

\* an unknown file came first, and the file after it has been appended
C8_Witness ==
    /\ pc = "files"
    /\ idx = 3
    /\ IsCsv(listing[1]) /\ _detect_file_type(listing[1].df.cols) = "unknown"
    /\ Len(AppendedRows("viewing_activity")) > 0

IsPrefix(s, t) == Len(s) <= Len(t) /\ SubSeq(t, 1, Len(s)) = s

RelationOf(entry) ==
    IF _detect_file_type(entry.df.cols) = "viewing" THEN "viewing_activity"
    ELSE IF _detect_file_type(entry.df.cols) = "billing" THEN "billing_history"
    ELSE "none"

C9_AppendOnly ==
    /\ \A relation \in Relations : IsPrefix(db[relation].rows, db'[relation].rows)
    /\ (pc = "files" /\ idx' = idx + 1 /\ IsCsv(listing[idx])) =>
          \A relation \in Relations :
              Len(db'[relation].rows) =
                  Len(db[relation].rows)
                  + (IF relation = RelationOf(listing[idx])
                     THEN Len(listing[idx].df.rows) ELSE 0)

C9_RowCountMultiplies ==
    pc \in {"done", "failed"} =>
        \A relation \in Relations :
            Len(db[relation].rows) = run * firstRun[relation]

C10_FatalFailures ==
    /\ returned # NoOutput =>
          /\ pc = "done"
          /\ failedAt = None
          /\ dist = DistributionSteps
          /\ idx > Len(listing)
          /\ \A i \in 1..Len(listing) : IsCsv(listing[i]) => listing[i].readable
    /\ pc = "done" => returned # NoOutput
    /\ pc = "failed" => returned = NoOutput /\ failedAt # None
    /\ (pc = "failed" /\ failedAt \in {"read_csv", "schema"}) => dist = {}
    /\ pc \notin {"idle", "failed"} =>
          \A i \in 1..(idx - 1) : IsCsv(listing[i]) => listing[i].readable
    /\ (pc = "files" /\ idx <= Len(listing)) => dist = {}

C10_NothingAfterFailure ==
    /\ (pc = "failed" /\ run' = run) => UNCHANGED pipeVars
    /\ (pc = "files" /\ idx <= Len(listing) /\ IsCsv(listing[idx])
        /\ ~listing[idx].readable) =>
          pc' = "failed" /\ failedAt' = "read_csv" /\ idx' = idx /\ db' = db

\* C10: a file that does not parse, or a schema that does not load, ends the
\* run in failure with no distribution step taken, and nothing more happens
\* in a failed run; an Output is returned only from a run that handled every
\* entry, parsed every .csv, and took all three distribution steps.
C10_NoPartialSuccess == []C10_FatalFailures /\ [][C10_NothingAfterFailure]_vars

\* the second entry did not parse, after the first was appended
C10_Witness ==
    /\ pc = "failed"
    /\ failedAt = "read_csv"
    /\ idx = 2
    /\ Len(AppendedRows("viewing_activity")) > 0
    /\ dist = {}
    /\ returned = NoOutput

=============================================================================
